---- MODULE Spec2Model ----
(***************************************************************************)
(* Model of web/utils/generate_service_account_access_token.py: the        *)
(* JWT-bearer token exchange of a service account.  One process is one     *)
(* caller of main() or of generate_jwt_and_access_token(); every process   *)
(* shares the working directory, hence the file service_account_token.json.*)
(* Each action is one statement (or one block) of the source, named by the *)
(* line it starts at, so that the order of file reads, HTTP requests and   *)
(* file writes is the order of the code.                                   *)
(***************************************************************************)
EXTENDS Integers, Sequences, FiniteSets, TLC

\* ------------------------------------------------------------------ bounds

\* Invocations one process makes, one after the other.
MaxRuns == 2

\* Clock readings: whole seconds NowBase .. NowBase + NowSpan (Unix time,
\* 2024-11-02T08:00:00Z onwards), each with the microsecond parts MicroParts.
NowBase == 1730534400
NowSpan == 0

\* --------------------------------------------------------- program constants

\* timedelta(hours=1), in seconds.
TokenLifetime == 3600

\* The only status the code accepts.
HTTP_OK == 200

MicrosPerSecond == 1000000

Procs == {1, 2}

\* ------------------------------------------------------------------- tokens
\* A text (a file's content, a response body) is a sequence of tokens; a token
\* is a record [k, v] of strings.  k is "p" (punctuation), "ws" (white space),
\* "str" (a string literal), "num" (a number literal) or "bad" (anything that
\* is no JSON).

Tok(k, v) == [k |-> k, v |-> v]
LBrace == Tok("p", "{")
RBrace == Tok("p", "}")
Colon  == Tok("p", ":")
Comma  == Tok("p", ",")
Space  == Tok("ws", " ")
Str(s) == Tok("str", s)
Num(s) == Tok("num", s)

\* ------------------------------------------------------------ Python values
\* str and int are their literal token; a dict is [k |-> "dict", items |-> the
\* sequence of its [key, val] entries in insertion order]; JsonError stands
\* for the exception json.loads raises.

JsonError == [k |-> "error"]
Dict(items) == [k |-> "dict", items |-> items]
IsDict(x) == x.k = "dict"
IsScalar(x) == x.k \in {"str", "num"}

Keys(d) == {d.items[i].key : i \in 1..Len(d.items)}

\* d[key], for a key of d.
DictGet(d, key) == LET i == CHOOSE j \in 1..Len(d.items) : d.items[j].key = key
                   IN  d.items[i].val

\* d[key] = val: a key already there keeps its place and takes the new value.
DictSet(d, key, val) ==
    IF key \in Keys(d)
    THEN Dict([i \in 1..Len(d.items) |->
                 IF d.items[i].key = key THEN [key |-> key, val |-> val]
                                         ELSE d.items[i]])
    ELSE Dict(Append(d.items, [key |-> key, val |-> val]))

\* ----------------------------------------------------------------- json.loads

StripWs(text) == SelectSeq(text, LAMBDA t : t.k # "ws")

\* The members between the braces: key : value (, key : value)*.
RECURSIVE ParseMembers(_, _)
ParseMembers(toks, acc) ==
    IF Len(toks) < 3 THEN JsonError
    ELSE IF ~(toks[1].k = "str" /\ toks[2] = Colon /\ IsScalar(toks[3]))
    THEN JsonError
    ELSE LET acc2 == DictSet(acc, toks[1].v, toks[3])
         IN  IF Len(toks) = 3 THEN acc2
             ELSE IF toks[4] # Comma THEN JsonError
             ELSE ParseMembers(SubSeq(toks, 5, Len(toks)), acc2)

JsonLoads(text) ==
    LET toks == StripWs(text)
        n == Len(toks)
    IN  IF n = 0 THEN JsonError
        ELSE IF n = 1 THEN (IF IsScalar(toks[1]) THEN toks[1] ELSE JsonError)
        ELSE IF toks[1] = LBrace /\ toks[n] = RBrace
        THEN (IF n = 2 THEN Dict(<<>>)
              ELSE ParseMembers(SubSeq(toks, 2, n - 1), Dict(<<>>)))
        ELSE JsonError

\* ----------------------------------------------------------------- json.dumps
\* The default separators: ", " between members and ": " after a key.

RECURSIVE DumpItems(_)
DumpItems(items) ==
    IF Len(items) = 0 THEN <<>>
    ELSE LET m == <<Str(items[1].key), Colon, Space, items[1].val>>
         IN  IF Len(items) = 1 THEN m
             ELSE m \o <<Comma, Space>> \o DumpItems(Tail(items))

JsonDumps(x) ==
    IF IsDict(x) THEN <<LBrace>> \o DumpItems(x.items) \o <<RBrace>>
    ELSE <<x>>


\* -------------------------------------------------------------- the strings
\* scopes_arg is a sequence of characters, "," the separator.  str.split(",")
\* cuts it at every separator; " ".join glues the pieces with one space.

RECURSIVE Split(_, _)
Split(s, sep) ==
    IF \A i \in 1..Len(s) : s[i] # sep THEN <<s>>
    ELSE LET i == CHOOSE j \in 1..Len(s) :
                      s[j] = sep /\ \A h \in 1..(j - 1) : s[h] # sep
         IN  <<SubSeq(s, 1, i - 1)>> \o Split(SubSeq(s, i + 1, Len(s)), sep)

RECURSIVE Join(_, _)
Join(sep, parts) ==
    IF Len(parts) = 0 THEN <<>>
    ELSE IF Len(parts) = 1 THEN parts[1]
    ELSE parts[1] \o <<sep>> \o Join(sep, Tail(parts))

\* ------------------------------------------------------------------ the clock
\* A datetime is [sec, us]: whole seconds since the epoch and microseconds
\* 0 .. 999999.  timestamp() is the float sec + us / 10^6, kept as the same
\* pair; int() truncates it toward zero.

Datetime(sec, us) == [k |-> "datetime", sec |-> sec, us |-> us]

\* datetime + timedelta(seconds, microseconds), normalised.
AddDelta(dt, seconds, micros) ==
    LET u == dt.us + micros
    IN  Datetime(dt.sec + seconds + (u \div MicrosPerSecond), u % MicrosPerSecond)

Timestamp(dt) == [whole |-> dt.sec, frac |-> dt.us]

IntOf(ts) == IF ts.whole < 0 /\ ts.frac > 0 THEN ts.whole + 1 ELSE ts.whole

\* -------------------------------------------------------------- environment

NoVal == [k |-> "none"]

MicroParts == {0, MicrosPerSecond - 1}

\* What datetime.now(timezone.utc) can return.
Clock == {Datetime(NowBase + s, u) : s \in 0..NowSpan, u \in MicroParts}

NONE == "<None>"
ServiceAccount == "sa@proj.iam"
Delegate == "user@corp"

\* The values of the flags --service_account_email and --delegate_email.
EmailFlags == {NONE, "", ServiceAccount}
DelegateFlags == {NONE, "", Delegate}

Falsy(x) == x \in {NONE, ""}

AllScopes == <<"space.readonly", ",", "media.readonly", ",", "space.created">>
\* The values of the flag --scopes: its default.
ScopeFlags == {AllScopes}

\* The PEM strings RSASigner.from_string accepts.
ValidPems == {"PEM_A", "PEM_B"}

KeyText(pem) == <<LBrace, Str("client_email"), Colon, Str(ServiceAccount), Comma,
                  Str("private_key"), Colon, Str(pem), RBrace>>

\* The key files of the working directory: path |-> [exists, readable, text].
KeyFile(exists, readable, text) ==
    [exists |-> exists, readable |-> readable, text |-> text]

KeyFiles ==
    [path \in {"missing.json", "locked.json", "garbage.json", "scalar.json",
               "nokey.json", "badpem.json", "credsA.json", "credsB.json"} |->
       CASE path = "missing.json" -> KeyFile(FALSE, FALSE, <<>>)
         [] path = "locked.json"  -> KeyFile(TRUE, FALSE, KeyText("PEM_A"))
         [] path = "garbage.json" -> KeyFile(TRUE, TRUE, <<Tok("bad", "-----BEGIN")>>)
         [] path = "scalar.json"  -> KeyFile(TRUE, TRUE, <<Num("7")>>)
         [] path = "nokey.json"   -> KeyFile(TRUE, TRUE,
                <<LBrace, Str("client_email"), Colon, Str(ServiceAccount), RBrace>>)
         [] path = "badpem.json"  -> KeyFile(TRUE, TRUE, KeyText("not a pem"))
         [] path = "credsA.json"  -> KeyFile(TRUE, TRUE, KeyText("PEM_A"))
         [] path = "credsB.json"  -> KeyFile(TRUE, TRUE, KeyText("PEM_B"))]

KeyPaths == DOMAIN KeyFiles

\* The statuses and the bodies the token endpoint answers with.
Statuses == {HTTP_OK, 401, 500}

BodyTokenA == <<LBrace, Str("access_token"), Colon, Str("abc123"), Comma,
                Str("expires_in"), Colon, Num("3600"), RBrace>>
BodyTokenB == <<LBrace, Space, Str("access_token"), Space, Colon, Space,
                Str("xyz789"), Space, RBrace>>
BodyError  == <<LBrace, Str("error"), Colon, Str("invalid_grant"), RBrace>>
BodyHtml   == <<Tok("bad", "<html>")>>
BodyScalar == <<Str("abc123")>>

Bodies == {BodyTokenA, BodyTokenB, BodyError, BodyHtml, BodyScalar}

Response(status, text) == [k |-> "response", status |-> status, text |-> text]

\* What service_account_token.json may hold before the first run.
NoFile == <<Tok("absent", "")>>
OldFile == <<LBrace, Str("access_token"), Colon, Space, Str("old"), Comma, Space,
             Str("expires_in"), Colon, Space, Num("3599"), Comma, Space,
             Str("scope"), Colon, Space, Str("x"), RBrace>>


\* ------------------------------------------------------------------- state

VARIABLES
    env,          \* what the callers and the environment may choose from
    active,       \* the processes that run
    tokenFile,    \* the content of service_account_token.json
    pc,           \* per process: the line it is at, or how its last run ended
    runs,         \* per process: the invocations it has started
    entry,        \* per process: "main" (the script) or "call" (the function)
    args,         \* per process: the arguments of this invocation
    frame,        \* per process: the locals of generate_jwt_and_access_token
    response,     \* per process: what requests.post returned
    result,       \* per process: the value the function returned
    err,          \* per process: the exception the invocation raised
    printed,      \* per process: what main printed
    io,           \* per process: key-file opens and HTTP POSTs of this invocation
    fileAtStart,  \* per process: tokenFile when this invocation started
    lastOk,       \* the response body of the last invocation that returned a token
    prevErr       \* the (status, body, exception) of the last earlier run that
                  \* a status other than 200 ended

vars == <<env, active, tokenFile, pc, runs, entry, args, frame, response, result, err,
          printed, io, fileAtStart, lastOk, prevErr>>

NoArgs == [k |-> "none"]
Args(sa, de, path, sc) ==
    [k |-> "args", service_account_email |-> sa, delegate_email |-> de,
     private_key_file |-> path, scopes |-> sc]

EmptyFrame == [scopes |-> <<>>, private_key |-> <<>>, file_key |-> NoVal,
               now |-> NoVal, payload |-> NoVal, jwt |-> NoVal]

NoIo == [keyOpens |-> 0, posts |-> 0, tokenOpens |-> 0]

Lit(s) == Tok("lit", s)
Exc(type, msg, line) == [k |-> "exc", type |-> type, msg |-> msg, line |-> line]

Ended == {"returned", "raised", "main_raised"}

\* Every flag value, key file, clock reading and answer of the model.
SeqEnv ==
    [emails |-> EmailFlags, delegates |-> DelegateFlags,
     callDelegates |-> {"", Delegate},
     paths |-> [p \in Procs |-> KeyPaths],
     scopes |-> ScopeFlags, clock |-> Clock,
     statuses |-> Statuses, bodies |-> Bodies, runs |-> MaxRuns]

\* Two callers with valid arguments and a key file each; each runs once.
ConcEnv ==
    [emails |-> {ServiceAccount}, delegates |-> {Delegate},
     callDelegates |-> {""},
     paths |-> [p \in Procs |-> IF p = 1 THEN {"credsA.json"} ELSE {"credsB.json"}],
     scopes |-> {AllScopes}, clock |-> {Datetime(NowBase, MicrosPerSecond - 1)},
     statuses |-> {HTTP_OK, 401}, bodies |-> {BodyTokenA, BodyTokenB, BodyHtml},
     runs |-> 1]

InitWith(procs, e) ==
    /\ env = e
    /\ active = procs
    /\ tokenFile \in {NoFile, OldFile}
    /\ pc = [p \in Procs |-> "idle"]
    /\ runs = [p \in Procs |-> 0]
    /\ entry = [p \in Procs |-> "call"]
    /\ args = [p \in Procs |-> NoArgs]
    /\ frame = [p \in Procs |-> EmptyFrame]
    /\ response = [p \in Procs |-> NoVal]
    /\ result = [p \in Procs |-> NoVal]
    /\ err = [p \in Procs |-> NoVal]
    /\ printed = [p \in Procs |-> <<>>]
    /\ io = [p \in Procs |-> NoIo]
    /\ fileAtStart = [p \in Procs |-> tokenFile]
    /\ lastOk = NoVal
    /\ prevErr = NoVal

\* One process, run after run.
Init == InitWith({1}, SeqEnv)

\* ------------------------------------------------------------- the function

CanStart(p) ==
    /\ p \in active
    /\ pc[p] \in Ended \cup {"idle"}
    /\ runs[p] < env.runs

\* A new invocation: nothing of the previous one is left but the file.
Begin(p, how, a) ==
    /\ runs' = [runs EXCEPT ![p] = @ + 1]
    /\ entry' = [entry EXCEPT ![p] = how]
    /\ args' = [args EXCEPT ![p] = a]
    /\ response' = [response EXCEPT ![p] = NoVal]
    /\ result' = [result EXCEPT ![p] = NoVal]
    /\ printed' = [printed EXCEPT ![p] = <<>>]
    /\ io' = [io EXCEPT ![p] = NoIo]
    /\ fileAtStart' = [fileAtStart EXCEPT ![p] = tokenFile]
    /\ prevErr' = IF pc[p] = "raised" /\ err[p].line = "L120"
                  THEN [k |-> "seen", status |-> response[p].status,
                        text |-> response[p].text, exc |-> err[p]]
                  ELSE prevErr
    /\ UNCHANGED <<env, active, tokenFile, lastOk>>

\* Line 82 on entry: scopes = scopes_arg.split(",").
Enter(p, a) ==
    /\ pc' = [pc EXCEPT ![p] = "L84"]
    /\ frame' = [frame EXCEPT ![p] = [EmptyFrame EXCEPT !.scopes = Split(a.scopes, ",")]]
    /\ err' = [err EXCEPT ![p] = NoVal]

\* An exception leaves the function; main's except clause prints it.
Raise(p, e) ==
    /\ pc' = [pc EXCEPT ![p] = "raised"]
    /\ err' = [err EXCEPT ![p] = e]
    /\ frame' = [frame EXCEPT ![p] = EmptyFrame]
    /\ printed' = [printed EXCEPT ![p] =
         IF entry[p] = "main" THEN <<Lit("An error occurred: ")>> \o e.msg ELSE @]
    /\ UNCHANGED <<env, active, runs, entry, args, result, fileAtStart, lastOk>>

Goto(p, line) == pc' = [pc EXCEPT ![p] = line]

\* A main that forgets the second check.
MainErrorNoDelegateCheck(sa, de) ==
    IF Falsy(sa)
    THEN Exc("Exception", <<Lit("service account is required")>>, "L139")
    ELSE NoVal

\* Lines 137-142: the exception main raises for a missing email, NoVal when
\* both are there.
MainError(sa, de) ==
    IF Falsy(sa)
    THEN Exc("Exception", <<Lit("service account is required")>>, "L139")
    ELSE IF Falsy(de)
    THEN Exc("Exception", <<Lit("delegate email is required")>>, "L142")
    ELSE NoVal

\* Lines 130-147: main reads the flags, checks the two emails and calls.
Main(p) ==
    /\ CanStart(p)
    /\ \E sa \in env.emails, de \in env.delegates, path \in env.paths[p],
          sc \in env.scopes :
         /\ Begin(p, "main", Args(sa, de, path, sc))
         /\ IF MainError(sa, de) # NoVal
            THEN /\ pc' = [pc EXCEPT ![p] = "main_raised"]
                 /\ err' = [err EXCEPT ![p] = MainError(sa, de)]
                 /\ frame' = [frame EXCEPT ![p] = EmptyFrame]
            ELSE Enter(p, Args(sa, de, path, sc))

\* Line 61: a caller other than main calls the function; the delegate may be
\* empty.
Call(p) ==
    /\ CanStart(p)
    /\ \E de \in env.callDelegates, path \in env.paths[p], sc \in env.scopes :
         /\ Begin(p, "call", Args(ServiceAccount, de, path, sc))
         /\ Enter(p, Args(ServiceAccount, de, path, sc))

\* Lines 84-85: open the key file and read it.
ReadKey(p) ==
    /\ pc[p] = "L84"
    /\ io' = [io EXCEPT ![p].keyOpens = @ + 1]
    /\ LET f == KeyFiles[args[p].private_key_file]
       IN  IF ~f.exists
           THEN Raise(p, Exc("FileNotFoundError", <<Lit("No such file or directory")>>, "L84"))
           ELSE IF ~f.readable
           THEN Raise(p, Exc("PermissionError", <<Lit("Permission denied")>>, "L84"))
           ELSE /\ Goto(p, "L87")
                /\ frame' = [frame EXCEPT ![p].private_key = f.text]
                /\ UNCHANGED <<env, active, runs, entry, args, result, err, printed,
                               fileAtStart, lastOk>>
    /\ UNCHANGED <<tokenFile, response, prevErr>>

\* Line 87: file_key = json.loads(private_key).
ParseKey(p) ==
    /\ pc[p] = "L87"
    /\ LET v == JsonLoads(frame[p].private_key)
       IN  IF v = JsonError
           THEN Raise(p, Exc("JSONDecodeError", <<Lit("Expecting value")>>, "L87"))
           ELSE /\ Goto(p, "L92")
                /\ frame' = [frame EXCEPT ![p].file_key = v]
                /\ UNCHANGED <<env, active, runs, entry, args, result, err, printed,
                               fileAtStart, lastOk>>
    /\ UNCHANGED <<tokenFile, response, io, prevErr>>

Header == [alg |-> "RS256", typ |-> "JWT"]

\* round(): to the nearest whole second.
RoundOf(ts) == IF 2 * ts.frac >= MicrosPerSecond THEN ts.whole + 1 ELSE ts.whole

\* A claim set whose exp is rounded where iat is truncated.
PayloadRoundedExp(a, scopes, now) ==
    LET exp == AddDelta(now, TokenLifetime, 0)
    IN  [k |-> "claims",
         iss |-> a.service_account_email,
         sub |-> IF ~Falsy(a.delegate_email) THEN a.delegate_email
                                              ELSE a.service_account_email,
         aud |-> "https://oauth2.googleapis.com/token",
         scope |-> Join(" ", scopes),
         iat |-> IntOf(Timestamp(now)),
         exp |-> RoundOf(Timestamp(exp))]

\* Lines 93-105: the claim set for the clock reading `now`.
Payload(a, scopes, now) ==
    LET exp == AddDelta(now, TokenLifetime, 0)
    IN  [k |-> "claims",
         iss |-> a.service_account_email,
         sub |-> IF ~Falsy(a.delegate_email) THEN a.delegate_email
                                              ELSE a.service_account_email,
         aud |-> "https://oauth2.googleapis.com/token",
         scope |-> Join(" ", scopes),
         iat |-> IntOf(Timestamp(now)),
         exp |-> IntOf(Timestamp(exp))]

\* Lines 89-105: the header, the clock reading and the payload.
BuildClaims(p) ==
    /\ pc[p] = "L92"
    /\ \E now \in env.clock :
         frame' = [frame EXCEPT ![p].now = now,
                                ![p].payload = Payload(args[p], frame[p].scopes, now)]
    /\ Goto(p, "L108")
    /\ UNCHANGED <<env, active, tokenFile, runs, entry, args, response, result, err,
                   printed, io, fileAtStart, lastOk, prevErr>>


\* A from_string that takes any string for a key.
FromStringAny(key) ==
    IF key.k = "str" THEN [k |-> "signer", pem |-> key.v] ELSE NoVal

\* RSASigner.from_string: a signer for a string holding a valid PEM key,
\* NoVal (a ValueError) for anything else.
FromString(key) ==
    IF key.k = "str" /\ key.v \in ValidPems THEN [k |-> "signer", pem |-> key.v]
    ELSE NoVal

\* google.auth.jwt.encode: the header, the payload and the signature of both.
Encode(signer, payload, header) ==
    [k |-> "jwt", header |-> header, payload |-> payload,
     signature |-> [by |-> signer.pem, over |-> <<header, payload>>]]

\* Lines 108-115: the signer from file_key["private_key"], then the JWT.
Sign(p) ==
    /\ pc[p] = "L108"
    /\ LET fk == frame[p].file_key
       IN  IF ~IsDict(fk)
           THEN Raise(p, Exc("TypeError", <<Lit("indices must be integers")>>, "L108"))
           ELSE IF "private_key" \notin Keys(fk)
           THEN Raise(p, Exc("KeyError", <<Lit("private_key")>>, "L108"))
           ELSE IF FromString(DictGet(fk, "private_key")) = NoVal
           THEN Raise(p, Exc("ValueError", <<Lit("No key could be detected.")>>, "L108"))
           ELSE /\ Goto(p, "L116")
                /\ frame' = [frame EXCEPT ![p].jwt =
                     Encode(FromString(DictGet(fk, "private_key")),
                            frame[p].payload, Header)]
                /\ UNCHANGED <<env, active, runs, entry, args, result, err, printed,
                               fileAtStart, lastOk>>
    /\ UNCHANGED <<tokenFile, response, io, prevErr>>

\* Line 116: one POST of the assertion; the transport fails or the endpoint
\* answers.
Post(p) ==
    /\ pc[p] = "L116"
    /\ io' = [io EXCEPT ![p].posts = @ + 1]
    /\ \/ /\ Raise(p, Exc("ConnectionError", <<Lit("Connection refused")>>, "L116"))
          /\ UNCHANGED response
       \/ /\ \E st \in env.statuses, body \in env.bodies :
               response' = [response EXCEPT ![p] = Response(st, body)]
          /\ Goto(p, "L118")
          /\ UNCHANGED <<env, active, runs, entry, args, frame, result, err, printed,
                         fileAtStart, lastOk>>
    /\ UNCHANGED <<tokenFile, prevErr>>

\* An exception that names the status too.
StatusErrorWithCode(r) ==
    Exc("Exception",
        <<Lit("Error getting access token: "), Num(ToString(r.status))>> \o r.text, "L120")

\* Line 120: the exception of a rejected exchange.
StatusError(r) == Exc("Exception", <<Lit("Error getting access token: ")>> \o r.text, "L120")

\* A check that takes only the 5xx statuses for failures.
CheckStatusServerErrorsOnly(p) ==
    /\ pc[p] = "L118"
    /\ IF response[p].status >= 500
       THEN Raise(p, StatusError(response[p]))
       ELSE /\ Goto(p, "L122")
            /\ UNCHANGED <<env, active, runs, entry, args, frame, result, err, printed,
                           fileAtStart, lastOk>>
    /\ UNCHANGED <<tokenFile, response, io, prevErr>>

\* A check that sends the request again after a status other than 200.
CheckStatusRetry(p) ==
    /\ pc[p] = "L118"
    /\ IF response[p].status # HTTP_OK
       THEN Goto(p, "L116")
       ELSE Goto(p, "L122")
    /\ UNCHANGED <<env, active, runs, entry, args, frame, result, err, printed,
                   fileAtStart, lastOk, tokenFile, response, io, prevErr>>

\* Lines 118-120: any status but 200 raises.
CheckStatus(p) ==
    /\ pc[p] = "L118"
    /\ IF response[p].status # HTTP_OK
       THEN Raise(p, StatusError(response[p]))
       ELSE /\ Goto(p, "L122")
            /\ UNCHANGED <<env, active, runs, entry, args, frame, result, err, printed,
                           fileAtStart, lastOk>>
    /\ UNCHANGED <<tokenFile, response, io, prevErr>>

\* Line 122: open(..., "w") creates the file or truncates it, unless the open
\* is refused.
OpenToken(p) ==
    /\ pc[p] = "L122"
    /\ io' = [io EXCEPT ![p].tokenOpens = @ + 1]
    /\ \/ /\ Raise(p, Exc("PermissionError", <<Lit("Permission denied")>>, "L122"))
          /\ UNCHANGED tokenFile
       \/ /\ tokenFile' = <<>>
          /\ Goto(p, "L123")
          /\ UNCHANGED <<env, active, runs, entry, args, frame, result, err, printed,
                         fileAtStart, lastOk>>
    /\ UNCHANGED <<response, prevErr>>

\* A write of `data` at offset 0 through a descriptor of its own.
WriteAt0(old, data) == data \o SubSeq(old, Len(data) + 1, Len(old))

\* What a failed write leaves of `data`.
PartialLens(data) == {0, Len(data) \div 2}

\* Line 123 and the end of the with block: json.dumps(response.json()) is
\* written and the file closed; the write may fail part-way.
WriteToken(p) ==
    /\ pc[p] = "L123"
    /\ LET v == JsonLoads(response[p].text)
       IN  IF v = JsonError
           THEN /\ Raise(p, Exc("JSONDecodeError", <<Lit("Expecting value")>>, "L123"))
                /\ UNCHANGED tokenFile
           ELSE \/ /\ tokenFile' = WriteAt0(tokenFile, JsonDumps(v))
                   /\ Goto(p, "L126")
                   /\ UNCHANGED <<env, active, runs, entry, args, frame, result, err,
                                  printed, fileAtStart, lastOk>>
                \/ /\ \E n \in PartialLens(JsonDumps(v)) :
                        tokenFile' = WriteAt0(tokenFile, SubSeq(JsonDumps(v), 1, n))
                   /\ Raise(p, Exc("OSError", <<Lit("No space left on device")>>, "L123"))
    /\ UNCHANGED <<response, io, prevErr>>

\* The function returns `val`; main prints it.
Return(p, val) ==
    /\ pc' = [pc EXCEPT ![p] = "returned"]
    /\ result' = [result EXCEPT ![p] = val]
    /\ frame' = [frame EXCEPT ![p] = EmptyFrame]
    /\ printed' = [printed EXCEPT ![p] =
         IF entry[p] = "main" THEN <<Lit("Access Token:"), Space, val>> ELSE @]
    /\ lastOk' = [k |-> "ok", text |-> response[p].text]
    /\ UNCHANGED <<env, active, runs, entry, args, err, fileAtStart>>

\* An extraction that reads the token back from the file just written.
ExtractFromFile(p) ==
    /\ pc[p] = "L126"
    /\ LET v == JsonLoads(tokenFile)
       IN  IF ~IsDict(v)
           THEN /\ Raise(p, Exc("TypeError", <<Lit("indices must be integers")>>, "L126"))
                /\ UNCHANGED lastOk
           ELSE IF "access_token" \notin Keys(v)
           THEN /\ Raise(p, Exc("KeyError", <<Lit("access_token")>>, "L126"))
                /\ UNCHANGED lastOk
           ELSE Return(p, DictGet(v, "access_token"))
    /\ UNCHANGED <<tokenFile, response, io, prevErr>>

\* Lines 126-127: response.json()["access_token"] is returned.
Extract(p) ==
    /\ pc[p] = "L126"
    /\ LET v == JsonLoads(response[p].text)
       IN  IF ~IsDict(v)
           THEN /\ Raise(p, Exc("TypeError", <<Lit("indices must be integers")>>, "L126"))
                /\ UNCHANGED lastOk
           ELSE IF "access_token" \notin Keys(v)
           THEN /\ Raise(p, Exc("KeyError", <<Lit("access_token")>>, "L126"))
                /\ UNCHANGED lastOk
           ELSE Return(p, DictGet(v, "access_token"))
    /\ UNCHANGED <<tokenFile, response, io, prevErr>>

Step(p) ==
    \/ Main(p)
    \/ Call(p)
    \/ ReadKey(p)
    \/ ParseKey(p)
    \/ BuildClaims(p)
    \/ Sign(p)
    \/ Post(p)
    \/ CheckStatus(p)
    \/ OpenToken(p)
    \/ WriteToken(p)
    \/ Extract(p)

Next == \E p \in Procs : Step(p)

Spec == Init /\ [][Next]_vars

\* Two processes at once, each with a key of its own.
InitConc == InitWith({1, 2}, ConcEnv)

SpecConc == InitConc /\ [][Next]_vars


\* ------------------------------------------------------------------ claims

Answered(p) == response[p].k = "response"
HasToken(text) == IsDict(JsonLoads(text)) /\ "access_token" \in Keys(JsonLoads(text))
TokenOf(text) == DictGet(JsonLoads(text), "access_token")
Persisted(text) == JsonDumps(JsonLoads(text))
Failed(p) == pc[p] \in {"raised", "main_raised"}

\* C1: an invocation whose POST was answered with a status other than 200
\* ends by raising at line 120, returns nothing, has not opened
\* service_account_token.json, and leaves its content as it was when the
\* invocation started.
C1_Non200Fails ==
    \A p \in active :
        (Answered(p) /\ response[p].status # 200) =>
            /\ pc[p] \in {"L118", "raised"}
            /\ pc[p] = "raised" => err[p].line = "L120"
            /\ result[p] = NoVal
            /\ io[p].tokenOpens = 0
            /\ tokenFile = fileAtStart[p]

C1_Witness ==
    /\ pc[1] = "raised"
    /\ Answered(1) /\ response[1].status = 401 /\ response[1].text = BodyError
    /\ tokenFile = OldFile

\* C2 (as the specification states it): once the endpoint has answered 200
\* with a body holding access_token, an invocation that reached the write of
\* service_account_token.json ends by returning that token, whether the open
\* and the write succeeded or not.
C2_Original ==
    \A p \in active :
        (/\ Answered(p) /\ response[p].status = 200 /\ HasToken(response[p].text)
         /\ io[p].tokenOpens > 0
         /\ pc[p] \in Ended) =>
            /\ pc[p] = "returned"
            /\ result[p] = TokenOf(response[p].text)

\* C3: a run of main with a missing or empty service account email or
\* delegate email has raised without opening the key file and without a
\* POST, and the message for a missing service account email is never the
\* message for a missing delegate email.
C3_MainFailsFast ==
    /\ \A p \in active :
        (entry[p] = "main" /\ args[p].k = "args") =>
            LET sa == args[p].service_account_email
                de == args[p].delegate_email
            IN  /\ (Falsy(sa) \/ Falsy(de)) =>
                      /\ pc[p] = "main_raised"
                      /\ err[p].k = "exc"
                      /\ io[p].keyOpens = 0
                      /\ io[p].posts = 0
                      /\ ~Answered(p)
                /\ Falsy(sa) => err[p].msg = <<Lit("service account is required")>>
                /\ (~Falsy(sa) /\ Falsy(de)) =>
                      err[p].msg = <<Lit("delegate email is required")>>
    /\ \A sa \in EmailFlags, de1 \in DelegateFlags, de2 \in DelegateFlags :
        (Falsy(sa) /\ Falsy(de2)) =>
            /\ MainError(sa, de1).k = "exc"
            /\ MainError(ServiceAccount, de2).k = "exc"
            /\ MainError(sa, de1).msg # MainError(ServiceAccount, de2).msg

C3_Witness ==
    /\ pc[1] = "main_raised"
    /\ args[1].service_account_email = ServiceAccount
    /\ args[1].delegate_email = ""
    /\ io[1] = NoIo

\* The key stage of `path` fails: the file is missing or unreadable, is no
\* JSON, has no private_key, or its private_key is no RSA key.
KeyStageFails(path) ==
    LET f == KeyFiles[path]
        v == JsonLoads(f.text)
    IN  \/ ~f.exists
        \/ ~f.readable
        \/ v = JsonError
        \/ ~IsDict(v)
        \/ "private_key" \notin Keys(v)
        \/ ~(DictGet(v, "private_key").k = "str"
             /\ DictGet(v, "private_key").v \in ValidPems)

\* C4: an invocation of the function whose key stage fails never sends the
\* POST: it is still before line 116 or has raised at line 84, 87 or 108.
C4_NoPostAfterKeyFailure ==
    \A p \in active :
        (args[p].k = "args" /\ pc[p] # "main_raised"
         /\ KeyStageFails(args[p].private_key_file)) =>
            /\ io[p].posts = 0
            /\ ~Answered(p)
            /\ pc[p] \in {"L84", "L87", "L92", "L108", "raised"}
            /\ pc[p] = "raised" => err[p].line \in {"L84", "L87", "L108"}

C4_Witness ==
    /\ pc[1] = "raised"
    /\ args[1].private_key_file = "badpem.json"
    /\ err[1].type = "ValueError"
    /\ io[1].posts = 0

\* C5: an invocation sends at most one POST, and one that raised at the POST
\* (transport failure) or at the status check has sent exactly one.
C5_SinglePost ==
    \A p \in active :
        /\ io[p].posts <= 1
        /\ (pc[p] = "raised" /\ err[p].line \in {"L116", "L120"}) => io[p].posts = 1
        /\ pc[p] \in {"L118", "L122", "L123", "L126", "returned"} => io[p].posts = 1

C5_Witness ==
    /\ pc[1] = "raised"
    /\ err[1].line = "L120"
    /\ response[1].status = 500
    /\ io[1].posts = 1

\* C6 (as the specification states it): an invocation that returned has
\* returned the access_token of its response and left the response in the
\* file; and between runs the file holds the response of the last run that
\* returned a token.
C6_Original ==
    \A p \in active :
        /\ pc[p] = "returned" =>
              /\ result[p] = TokenOf(response[p].text)
              /\ tokenFile = Persisted(response[p].text)
        /\ (pc[p] \in Ended /\ lastOk.k = "ok") =>
              JsonLoads(tokenFile) = JsonLoads(lastOk.text)

\* C7 (as the specification states it): an invocation that has written the
\* file and not yet returned finds its own output in the file, as it does
\* when it runs alone.
C7_Original ==
    \A p \in active :
        pc[p] = "L126" => tokenFile = Persisted(response[p].text)

\* C7, amended: the file is the one location two invocations share; the
\* token an invocation returns is the access_token of its own response,
\* whatever the other invocation does.
C7_TokenOwn ==
    \A p \in active :
        pc[p] = "returned" =>
            /\ HasToken(response[p].text)
            /\ result[p] = TokenOf(response[p].text)

C7_Witness ==
    /\ pc[1] = "returned" /\ pc[2] = "returned"
    /\ result[1] = Str("abc123") /\ result[2] = Str("xyz789")
    /\ tokenFile # Persisted(response[1].text)

C9_ExpIsIatPlus3600 ==
    \A p \in active :
        frame[p].payload.k = "claims" =>
            /\ frame[p].payload.exp = frame[p].payload.iat + 3600
            /\ frame[p].payload.exp > frame[p].payload.iat
            /\ frame[p].payload.iat = frame[p].now.sec
            /\ frame[p].payload.iat \in Int /\ frame[p].payload.exp \in Int

C9_Witness ==
    /\ pc[1] = "L116"
    /\ frame[1].now.us = MicrosPerSecond - 1
    /\ frame[1].payload.exp = NowBase + 3600

\* C10 (as stated): an invocation that ended in failure has left
\* service_account_token.json as it was when the invocation started.
C10_Original ==
    \A p \in active :
        Failed(p) => tokenFile = fileAtStart[p]

====
